---- MODULE Spec2Model ----
(***************************************************************************)
(* Reference-cycle detection of runtests/cycles.py: the breadth-first      *)
(* reachability collector (_bfs), the ignore filter (_ignore_filter),      *)
(* Tarjan's strongly-connected-components pass (tarjan /                   *)
(* strongly_connect) and the two public checks (assert_no_cycles,          *)
(* assert_no_backcycles).                                                  *)
(*                                                                         *)
(* nompi of runtests/mpi/tester.py is modelled beside it, one process per   *)
(* rank of the communicator, and so are the MPITest wrapper, Rotator and   *)
(* the --mpisub branch of Tester.main, one process per rank of COMM_WORLD. *)
(* BenchmarkLogger of runtests/benchmark.py is modelled as a logger that   *)
(* takes results and reports once.                                         *)
(*                                                                         *)
(* Objects are the integers 1..NumNodes and getid is the identity on them  *)
(* (the default getid=id).  The containers the algorithm allocates for     *)
(* itself (the seed tuple, the per-layer lists, id_to_obj) get identities  *)
(* <= 0, so that they never collide with an object.  gc.get_referrers      *)
(* lists these containers among the referrers of the objects they hold.    *)
(***************************************************************************)
EXTENDS Integers, Sequences, FiniteSets

\* ------------------------------------------------------------------ bounds
\* the small heaps: every graph of SmallEdges edges or fewer on SmallNodes
\* objects, with every ignore policy that lists MaxIgnore objects or fewer
SmallNodes == 3
SmallEdges == 3
MaxIgnore == 1
\* the shadowed heaps: every graph of ShadowEdges edges or fewer on
\* SmallNodes objects, with every ignore policy that lists MaxShadow objects
\* or fewer
ShadowEdges == 2
MaxShadow == 2
\* the big heaps: every graph of BigEdges edges or fewer on BigNodes objects
BigNodes == 4
BigEdges == 4
\* the longest seed tuple
MaxSeeds == 2
\* the longest sequence of checks one caller makes
MaxRuns == 3
\* the last call of the edge function that may fail
MaxCalls == 6
\* the largest communicator
MaxRanks == 3
\* the longest test session of a sub-process run
MaxTests == 2
\* the largest number of results handed to one BenchmarkLogger
MaxAdds == 4
\* the number of test functions that hand in results
MaxFuncs == 3

\* ------------------------------------------------------------------ state
VARIABLES
    adj,         \* heap: adj[x] = the objects x refers to
    ign,         \* the caller's ignore policy: ign[x] = the objects ignore(x) lists
    objs,        \* the seed tuple (a sequence of objects)
    fn,          \* which public check runs
    rev,         \* the order in which the heap lists neighbours
    tok,         \* the getid handed to tarjan: tok[x] is the token of object x
    failat,      \* the call of the edge function that raises, counted from 1
                 \* (0: the edge function never fails)
    squeeze,     \* the squeeze argument handed to tarjan (True by default)
    pc,          \* position of the check
    visited,     \* _bfs: visited
    referrers,   \* _bfs: referrers (the candidates of the coming layer)
    extraids,    \* _bfs: extraids (the ignore set)
    front,       \* _bfs: front of the last layer
    layer,       \* _bfs: number of the coming iteration of `while True`
    id_to_obj,   \* tarjan: id_to_obj
    V,           \* tarjan: V
    index,       \* tarjan: index
    lowlink,     \* tarjan: lowlink
    onStack,     \* tarjan: onStack
    S,           \* tarjan: S
    gindex,      \* tarjan: gindex[0]
    sccs,        \* tarjan: sccs (the outer list, line 221)
    result,      \* what tarjan returned to the check
    shown,       \* number of show_cycles calls
    collected,   \* number of gc.collect() calls
    outcome,     \* how the check ended
    stdout,      \* what show_cycles has printed and drawn for the running check
    raised,      \* the exception the check delivered to its caller
    calls,       \* number of calls of the edge function in the running check
    calllog,     \* history: the argument lists of the calls _bfs made
    met,         \* history: the objects _bfs has found on a referrers list
    admitted,    \* history: the objects _bfs has put on a front
    blocked,     \* history: the objects whose identity was in extraids when
                 \* _bfs first met them
    run,         \* the number of the running check, counted from the caller's first
    roots,       \* history: the v of `for v in V` that were passed to
                 \* strongly_connect, in order
    seen,        \* history: per (objs, get_referrers) of an earlier check, what V
                 \* was, the order V was iterated in and what tarjan returned
    size,        \* comm.size of the communicator handed to nompi (0: no communicator)
    body,        \* body[r]: how the block under `with nompi(comm)` ends on rank r
    rpc,         \* rpc[r]: position of rank r in nompi
    errored,     \* nompi: errored, per rank
    error,       \* nompi: error, per rank
    gathered,    \* comm.allgather: what the ranks have handed in so far
    anyerrored,  \* nompi: anyerrored, per rank
    ended,       \* how the with statement ended on each rank
    gathers,     \* number of comm.allgather calls, per rank
    world,       \* MPI.COMM_WORLD.size (0: no world)
    tests,       \* the tests of the session, in the order pytest runs them:
                 \* tests[t].size is the size parameter of the wrapped test,
                 \* tests[t].body[r] is how its body ends on rank r
    with_coverage, \* args.with_coverage
    exists,      \* exists[r]: os.path.exists(self.TEST_DIR) on rank r
    wpc,         \* wpc[r]: position of rank r of COMM_WORLD
    tno,         \* tno[r]: the number of the test rank r is running
    wcalls,      \* wcalls[r]: the collective calls rank r has made on its
                 \* communicator, in order
    communicators, \* communicators[r]: the keys of the module's dict on rank r
    color,       \* color[r] of the running test
    tended,      \* tended[r]: how the wrapped test ended on rank r
    code,        \* code[r]: the code of main on rank r
    status,      \* status[r]: how the process of rank r ended
    aborted,     \* whether some rank has called comm.Abort
    ri,          \* Rotator: i of the running loop, per rank
    rotlog,      \* history: the starts and ends of the bodies under Rotator
    benchmarks,  \* BenchmarkLogger: the keys of self.benchmarks, in insertion order
    tests_counter, \* BenchmarkLogger: self.tests_counter
    files,       \* the files report() has written: files[filename] is result['tests']
    writes,      \* history: the number of json.dump calls of report()
    reported     \* whether report() has run

inputs == <<adj, ign, objs, fn, rev, tok, failat, squeeze>>
bfsvars == <<visited, referrers, extraids, front, layer, id_to_obj>>
tarjanvars == <<V, index, lowlink, onStack, S, gindex, sccs>>
checkvars == <<result, shown, collected, outcome, stdout, raised>>
edgevars == <<calls, calllog>>
idvars == <<met, admitted>>
histvars == <<run, roots, seen>>
checkstate == <<inputs, pc, bfsvars, tarjanvars, checkvars, edgevars, idvars, blocked, histvars>>
mpivars == <<size, body, rpc, errored, error, gathered, anyerrored, ended, gathers>>
worldvars == <<world, tests, with_coverage, exists, wpc, tno, wcalls, communicators, color,
               tended, code, status, aborted, ri, rotlog>>
benchvars == <<benchmarks, tests_counter, files, writes, reported>>
besides == <<worldvars, benchvars>>
vars == <<checkstate, mpivars, besides>>

\* the objects of the heap
Node == DOMAIN adj

\* ------------------------------------------------------------- identities
\* the builtin id(x): objects are their own addresses
id(x) == x

\* getid(x) of an object, with the getid tarjan was given (getid=id unless
\* the caller hands in its own)
getid(x) == IF x \in Node THEN tok[x] ELSE id(x)

\* id(objs), the seed tuple
ObjsId == 0
\* id(id_to_obj)
IdToObjId == 0 - 1
\* id(referrers), id(front), id(newreferrers) of iteration k = 1, 2, ...
ReferrersId(k) == 0 - (3 * k)
FrontId(k) == 0 - (3 * k + 1)
NewReferrersId(k) == 0 - (3 * k + 2)
\* id(id_to_obj) once line 167 has bound the name to a new dict
ShrunkId == 0 - 2

\* ------------------------------------------------------------ small helpers
EmptyMap == [x \in {} |-> 0]

Put(f, k, val) == [x \in (DOMAIN f) \cup {k} |-> IF x = k THEN val ELSE f[x]]

\* a lowlink that is never lowered
KeepsFirst(a, b) == a

min(a, b) == IF a <= b THEN a ELSE b

Range(s) == {s[i] : i \in DOMAIN s}

RECURSIVE Ascending(_)
Ascending(X) ==
    IF X = {} THEN <<>>
    ELSE LET m == CHOOSE x \in X : \A y \in X : x <= y
         IN <<m>> \o Ascending(X \ {m})

RECURSIVE Descending(_)
Descending(X) ==
    IF X = {} THEN <<>>
    ELSE LET m == CHOOSE x \in X : \A y \in X : x >= y
         IN <<m>> \o Descending(X \ {m})

\* the order in which the heap enumerates a set of objects
Listing(X) == IF rev THEN Descending(X) ELSE Ascending(X)

\* -------------------------------------------------------------- containers
\* the identities a container of the algorithm can have: _bfs runs one
\* iteration more than it finds layers
ContainerIds == (0 - (3 * (Cardinality(Node) + 1) + 2))..0

\* the containers of _bfs that hold one of args while line 269 runs in
\* iteration k: front, referrers, the newreferrers of the iteration before,
\* id_to_obj, and the seed tuple if a seed is among args
BfsContainers(args, k) ==
    {IdToObjId, FrontId(k), ReferrersId(k)}
        \cup (IF k > 1 THEN {NewReferrersId(k - 1)} ELSE {})
        \cup (IF Range(args) \cap Range(objs) # {} THEN {ObjsId} ELSE {})

\* the containers of tarjan that hold one of args while line 186 runs
TarjanContainers(args) ==
    {ShrunkId} \cup (IF Range(args) \cap Range(objs) # {} THEN {ObjsId} ELSE {})

\* the containers of the algorithm that hold one of args
Containers(args) ==
    IF pc = "bfs" THEN BfsContainers(args, layer) ELSE TarjanContainers(args)

\* ---------------------------------------------------------- edge functions
\* gc.get_referents(*objs): the referents of each argument, one after another
RECURSIVE get_referents(_)
get_referents(args) ==
    IF args = <<>> THEN <<>>
    ELSE Listing(adj[Head(args)]) \o get_referents(Tail(args))

\* gc.get_referrers(*objs): every object that refers to one of the arguments
gc_get_referrers(args) ==
    Listing({y \in Node : adj[y] \cap Range(args) # {}} \cup Containers(args))

\* both checks hand over gc.get_referrers
get_referrers_backward(args) == gc_get_referrers(args)

\* the get_referrers argument the running check hands to tarjan
get_referrers(args) ==
    IF fn = "assert_no_cycles" THEN get_referents(args) ELSE gc_get_referrers(args)

\* ------------------------------------------------------------ _ignore_filter
\* for ref in referrers (lines 231-237), from position i on
RECURSIVE IgnoreFilterLoop(_, _, _, _, _)
IgnoreFilterLoop(refs, ignore, i, r, extra) ==
    IF i > Len(refs) THEN [r |-> r, extraids |-> extra]
    ELSE LET ref == refs[i]
             extra2 == extra \cup {id(o) : o \in ignore[ref]}
         IN IF id(ref) \in extra2
            THEN IgnoreFilterLoop(refs, ignore, i + 1, r, extra2)
            ELSE IgnoreFilterLoop(refs, ignore, i + 1, Append(r, ref), extra2)

\* a loop that skips the first candidate
IgnoreFilterFromSecond(refs, ignore, extra) == IgnoreFilterLoop(refs, ignore, 2, <<>>, extra)

\* a filter that notes what ignore lists and drops nothing
IgnoreFilterKeepAll(refs, ignore, extra) ==
    [r |-> refs, extraids |-> IgnoreFilterLoop(refs, ignore, 1, <<>>, extra).extraids]

\* _ignore_filter(referrers, ignore, extraids): the list kept and the
\* extraids it leaves behind (the set is updated in place)
_ignore_filter(refs, ignore, extra) == IgnoreFilterLoop(refs, ignore, 1, <<>>, extra)

\* ----------------------------------------------------------------- _bfs
\* a test on the object instead of its token
AlreadyVisitedObject(ref, vis, idmap) == ref \in Range(idmap)

\* if refid in visited
AlreadyVisited(ref, vis, idmap) == getid(ref) \in vis

\* for ref in referrers (lines 252-262), from position i on
RECURSIVE AdmitLoop(_, _, _, _, _)
AdmitLoop(refs, i, vis, fr, idmap) ==
    IF i > Len(refs) THEN [visited |-> vis, front |-> fr, id_to_obj |-> idmap]
    ELSE LET ref == refs[i]
             refid == getid(ref)
         IN IF AlreadyVisited(ref, vis, idmap)
            THEN AdmitLoop(refs, i + 1, vis, fr, idmap)
            ELSE AdmitLoop(refs, i + 1, vis \cup {refid}, Append(fr, ref),
                           Put(idmap, getid(ref), ref))

\* a break one candidate early
BfsBreakEarly(fr) == Len(fr) <= 1

\* if len(front) == 0: break
BfsBreak(fr) == Len(fr) = 0

\* return visited
BfsReturnAll(vis, extra) == vis

\* return visited - extraids
BfsReturn(vis, extra) == vis \ extra

\* ignore=ignore: the caller's policy alone
BfsIgnorePlain == [x \in Node \cup ContainerIds |-> IF x \in Node THEN ign[x] ELSE {}]

\* ignore=lambda x: ignore(x) + [id_to_obj]
BfsIgnore ==
    [x \in Node \cup ContainerIds |-> (IF x \in Node THEN ign[x] ELSE {}) \cup {IdToObjId}]

\* a start from the neighbours of the seeds
SeedListNeighbours(o) == get_referrers(o)

\* referrers = list(objs)
SeedList(o) == o

\* the filter is run, its result is dropped: referrers = newreferrers
BfsFilterNone(newreferrers, extra) ==
    [r |-> newreferrers, extraids |-> _ignore_filter(newreferrers, BfsIgnore, extra).extraids]

\* referrers = _ignore_filter(newreferrers, ignore=ignore, extraids=extraids)
BfsFilter(newreferrers, extra) == _ignore_filter(newreferrers, BfsIgnore, extra)

\* history: the objects of refs[i..] that are in the ignore set the first
\* time _bfs meets them (before: the objects met before)
RECURSIVE FirstMetIgnored(_, _, _, _, _)
FirstMetIgnored(refs, i, before, extra, acc) ==
    IF i > Len(refs) THEN acc
    ELSE FirstMetIgnored(refs, i + 1, before \cup {refs[i]},
             extra \cup {id(o) : o \in BfsIgnore[refs[i]]},
             IF refs[i] \notin before
                /\ id(refs[i]) \in extra \cup {id(o) : o \in BfsIgnore[refs[i]]}
             THEN acc \cup {refs[i]} ELSE acc)

\* ---------------------------------------------------------------- tarjan
\* ignore=lambda x: [x] if getid(x) not in V else []
NotInV(Vset) == [x \in Node \cup ContainerIds |-> IF getid(x) \notin Vset THEN {x} ELSE {}]

\* W of strongly_connect(v) (lines 185-190)
Neighbours(Vset, idmap, v) ==
    LET kept == _ignore_filter(get_referrers(<<idmap[v]>>), NotInV(Vset), {}).r
    IN [i \in DOMAIN kept |-> getid(kept[i])]

\* the loop without `if w == v: break`: it empties the stack
PopAll(st, v, scc) ==
    [st |-> [st EXCEPT !.S = <<>>, !.onStack = [x \in DOMAIN @ |-> FALSE]],
     scc |-> scc \o [i \in 1..Len(st.S) |-> st.S[Len(st.S) + 1 - i]]]

\* while True: w = S.pop() ... (lines 205-211)
RECURSIVE PopLoop(_, _, _)
PopLoop(st, v, scc) ==
    LET w == st.S[Len(st.S)]
        st2 == [st EXCEPT !.S = SubSeq(@, 1, Len(@) - 1), !.onStack[w] = FALSE]
        scc2 == Append(scc, w)
    IN IF w = v THEN [st |-> st2, scc |-> scc2] ELSE PopLoop(st2, v, scc2)

\* the test without `or isloop`
RetainedBig(scc, isloop) == Len(scc) > 1

\* the test that keeps every component
RetainedAll(scc, isloop) == TRUE

\* the test the docstring of squeeze describes (lines 137-138)
RetainedUnlessSqueezed(scc, isloop) == ~squeeze \/ Len(scc) > 1 \/ isloop

\* if len(scc) > 1 or isloop
Retained(scc, isloop) == Len(scc) > 1 \/ isloop

\* a test that never sees the self-edge
SelfEdgeNever(v, w) == FALSE

\* if v == w (line 199)
SelfEdge(v, w) == v = w

RECURSIVE strongly_connect(_, _, _)
RECURSIVE ForW(_, _, _, _, _, _, _)

\* lines 194-195, once strongly_connect(w) has returned c, or has been left
\* by the exception of the edge function, which leaves this frame too
AfterCall(c, Vset, v, W, i, isloop, out) ==
    IF c.st.failed THEN [st |-> c.st, isloop |-> isloop, sccs |-> out]
    ELSE ForW([c.st EXCEPT !.lowlink[v] = min(@, c.st.lowlink[W[i]])],
              Vset, v, W, i + 1, isloop, out \o c.sccs)

\* for w in W (lines 192-200), from position i on
ForW(st, Vset, v, W, i, isloop, out) ==
    IF i > Len(W) THEN [st |-> st, isloop |-> isloop, sccs |-> out]
    ELSE IF W[i] \notin DOMAIN st.index
    THEN AfterCall(strongly_connect(st, Vset, W[i]), Vset, v, W, i, isloop, out)
    ELSE IF st.onStack[W[i]]
    THEN ForW([st EXCEPT !.lowlink[v] = min(@, st.index[W[i]])], Vset, v, W, i + 1,
              isloop \/ SelfEdge(v, W[i]), out)
    ELSE ForW(st, Vset, v, W, i + 1, isloop, out)

\* lines 213-217, once the component p.scc has been popped
Output(p, isloop, out) ==
    [st |-> p.st, sccs |-> IF Retained(p.scc, isloop) THEN Append(out, p.scc) ELSE out]

\* lines 202-219, once the loop over W has ended in `loop`, or has been
\* left by the exception of the edge function
AfterLoop(loop, v) ==
    IF loop.st.failed THEN [st |-> loop.st, sccs |-> <<>>]
    ELSE IF loop.st.lowlink[v] = loop.st.index[v]
    THEN Output(PopLoop(loop.st, v, <<>>), loop.isloop, loop.sccs)
    ELSE [st |-> loop.st, sccs |-> loop.sccs]

\* lines 176-183 without gindex[0] = gindex[0] + 1
EnterSameIndex(st, v) ==
    [st EXCEPT !.index = Put(@, v, st.gindex),
               !.lowlink = Put(@, v, st.gindex),
               !.S = Append(@, v),
               !.onStack[v] = TRUE]

\* lines 176-183
Enter(st, v) ==
    [st EXCEPT !.index = Put(@, v, st.gindex),
               !.lowlink = Put(@, v, st.gindex),
               !.gindex = @ + 1,
               !.S = Append(@, v),
               !.onStack[v] = TRUE]

\* get_referrers(id_to_obj[v]) is called (line 186)
Called(st) == [st EXCEPT !.calls = @ + 1]

\* strongly_connect(v) on the closure state st = (index, lowlink, onStack, S,
\* gindex, id_to_obj) and the edge function's (calls, failat): the state it
\* leaves and the list it returns; failed: it was left by an exception
strongly_connect(st, Vset, v) ==
    IF st.failat = st.calls + 1
    THEN [st |-> [Called(Enter(st, v)) EXCEPT !.failed = TRUE], sccs |-> <<>>]
    ELSE AfterLoop(ForW(Called(Enter(st, v)), Vset, v,
                        Neighbours(Vset, st.id_to_obj, v), 1, FALSE, <<>>),
                   v)

\* sorted(sccs, key=lambda x: -len(x)): a stable sort, longest first
RECURSIVE InsertByLen(_, _)
InsertByLen(s, x) ==
    IF s = <<>> THEN <<x>>
    ELSE IF Len(s[Len(s)]) >= Len(x) THEN Append(s, x)
    ELSE Append(InsertByLen(SubSeq(s, 1, Len(s) - 1), x), s[Len(s)])

RECURSIVE SortLoop(_, _, _)
SortLoop(s, i, acc) ==
    IF i > Len(s) THEN acc ELSE SortLoop(s, i + 1, InsertByLen(acc, s[i]))

\* return sccs
Unsorted(s) == s

sorted(s) == SortLoop(s, 1, <<>>)

\* ------------------------------------------------------------- the inputs
RECURSIVE EdgeSets(_, _)
EdgeSets(n, k) ==
    IF k = 0 THEN {{}}
    ELSE LET P == EdgeSets(n, k - 1)
         IN P \cup {E \cup {e} : E \in P, e \in (1..n) \X (1..n)}

AdjOf(n, E) == [x \in 1..n |-> {y \in 1..n : <<x, y>> \in E}]

\* every graph on the objects 1..n with k edges or fewer
Heaps(n, k) == {AdjOf(n, E) : E \in EdgeSets(n, k)}

\* tuples of distinct objects of 1..n, at most k long
RECURSIVE SeedTuples(_, _)
SeedTuples(n, k) ==
    IF k = 0 THEN {<<>>}
    ELSE LET P == SeedTuples(n, k - 1)
             longest == {t \in P : Len(t) = k - 1}
         IN P \cup UNION {{Append(s, x) : x \in (1..n) \ Range(s)} : s \in longest}

\* the check has raised nothing
NoException == [type |-> "none", args |-> <<>>]

\* what a failing edge function raises
EdgeError == [type |-> "EdgeError", args |-> <<>>]

\* what a failing `assert len(sccs) == 0` raises: the statement has no message
AssertionError == [type |-> "AssertionError", args |-> <<>>]

\* no communicator: nompi is not running
NoRanks ==
    /\ size = 0
    /\ body = EmptyMap
    /\ rpc = EmptyMap
    /\ errored = EmptyMap
    /\ error = EmptyMap
    /\ gathered = EmptyMap
    /\ anyerrored = EmptyMap
    /\ ended = EmptyMap
    /\ gathers = EmptyMap

\* no world: no rank of COMM_WORLD is running
NoWorld ==
    /\ world = 0
    /\ tests = <<>>
    /\ with_coverage = FALSE
    /\ exists = EmptyMap
    /\ wpc = EmptyMap
    /\ tno = EmptyMap
    /\ wcalls = EmptyMap
    /\ communicators = EmptyMap
    /\ color = EmptyMap
    /\ tended = EmptyMap
    /\ code = EmptyMap
    /\ status = EmptyMap
    /\ aborted = FALSE
    /\ ri = EmptyMap
    /\ rotlog = <<>>

\* no logger: BenchmarkLogger is not in use
NoBench ==
    /\ benchmarks = <<>>
    /\ tests_counter = EmptyMap
    /\ files = EmptyMap
    /\ writes = 0
    /\ reported = FALSE

InitCheck ==
    /\ pc = "start"
    /\ visited = {}
    /\ referrers = <<>>
    /\ extraids = {}
    /\ front = <<>>
    /\ layer = 0
    /\ id_to_obj = EmptyMap
    /\ V = {}
    /\ index = EmptyMap
    /\ lowlink = EmptyMap
    /\ onStack = EmptyMap
    /\ S = <<>>
    /\ gindex = 0
    /\ sccs = <<>>
    /\ result = <<>>
    /\ shown = 0
    /\ collected = 0
    /\ outcome = "running"
    /\ stdout = <<>>
    /\ raised = NoException
    /\ calls = 0
    /\ calllog = <<>>
    /\ met = {}
    /\ admitted = {}
    /\ blocked = {}
    /\ run = 1
    /\ roots = <<>>
    /\ seen = EmptyMap

InitLocals == InitCheck /\ NoRanks /\ NoWorld /\ NoBench

\* ----------------------------------------------------------------- Init
\* the small heaps, both checks, both listing orders
InitSmall ==
    /\ adj \in Heaps(SmallNodes, SmallEdges)
    /\ ign \in Heaps(SmallNodes, MaxIgnore)
    /\ objs \in SeedTuples(SmallNodes, MaxSeeds)
    /\ fn \in {"assert_no_cycles", "assert_no_backcycles"}
    /\ rev \in BOOLEAN
    /\ tok = [x \in DOMAIN adj |-> id(x)]
    /\ failat = 0
    /\ squeeze = TRUE

\* the shadowed heaps under a single seed
InitShadow ==
    /\ adj \in Heaps(SmallNodes, ShadowEdges)
    /\ ign \in Heaps(SmallNodes, MaxShadow)
    /\ objs \in {t \in SeedTuples(SmallNodes, MaxSeeds) : Len(t) = 1}
    /\ fn = "assert_no_cycles"
    /\ rev \in BOOLEAN
    /\ tok = [x \in DOMAIN adj |-> id(x)]
    /\ failat = 0
    /\ squeeze = TRUE

\* the big heaps under a policy that ignores nothing
InitBig ==
    /\ adj \in Heaps(BigNodes, BigEdges)
    /\ ign = AdjOf(BigNodes, {})
    /\ objs \in {t \in SeedTuples(BigNodes, MaxSeeds) : \A i \in 1..(Len(t) - 1) : t[i] < t[i + 1]}
    /\ fn = "assert_no_cycles"
    /\ rev = FALSE
    /\ tok = [x \in DOMAIN adj |-> id(x)]
    /\ failat = 0
    /\ squeeze = TRUE

\* two disjoint cycles of sizes 3 and 2 (spec section 8)
InitTwoCycles ==
    /\ adj = AdjOf(5, {<<1, 2>>, <<2, 3>>, <<3, 1>>, <<4, 5>>, <<5, 4>>})
    /\ ign = AdjOf(5, {})
    /\ objs \in SeedTuples(5, MaxSeeds)
    /\ fn \in {"assert_no_cycles", "assert_no_backcycles"}
    /\ rev \in BOOLEAN
    /\ tok = [x \in DOMAIN adj |-> id(x)]
    /\ failat = 0
    /\ squeeze = TRUE

Init == (InitSmall \/ InitShadow \/ InitBig \/ InitTwoCycles) /\ InitLocals

\* -------------------------------------------------------------- actions
\* a check without the collection
CollectNone(n) == n

\* gc.collect(): one more invocation of the garbage collector
Collect(n) == n + 1

\* an index that outlives the call
StaleIndex(old) == old

\* index = {}
FreshIndex(old) == EmptyMap

\* assert_no_cycles / assert_no_backcycles up to the first iteration of
\* _bfs: gc.collect(), tarjan's locals (lines 144-152), _bfs's (245-249)
Call ==
    /\ pc = "start"
    /\ collected' = Collect(collected)
    /\ gindex' = 0
    /\ index' = FreshIndex(index)
    /\ lowlink' = EmptyMap
    /\ onStack' = EmptyMap
    /\ S' = <<>>
    /\ id_to_obj' = EmptyMap
    /\ visited' = {}
    /\ referrers' = SeedList(objs)
    /\ extraids' = {ObjsId}
    /\ layer' = 1
    /\ pc' = "bfs"
    /\ UNCHANGED <<mpivars, besides, inputs, front, V, sccs, result, shown, outcome, stdout, raised,
                   edgevars, idvars, blocked, histvars>>

\* lines 274-276, once _ignore_filter has returned f
Filtered(a, f) ==
    /\ referrers' = f.r
    /\ extraids' = f.extraids
    /\ id_to_obj' = a.id_to_obj
    /\ layer' = layer + 1

\* one of the next n calls of the edge function is the one that raises
Fails(n) == failat > calls /\ failat <= calls + n

\* one call of the edge function for each object of the front
EdgeCallsPerNode(fr) == [i \in DOMAIN fr |-> <<fr[i]>>]

\* newreferrers = get_referrers(*front): the calls made, each with its
\* argument list
EdgeCalls(fr) == <<fr>>

\* lines 264-276 and 282, once the loop over referrers has ended in a
BfsStep(a) ==
    /\ visited' = a.visited
    /\ front' = a.front
    /\ met' = met \cup Range(referrers)
    /\ admitted' = admitted \cup Range(a.front)
    /\ IF BfsBreak(a.front)
       THEN /\ V' = BfsReturn(a.visited, extraids)
            /\ id_to_obj' = [k \in BfsReturn(a.visited, extraids) |-> a.id_to_obj[k]]
            /\ onStack' = [v \in BfsReturn(a.visited, extraids) |-> FALSE]
            /\ sccs' = <<>>
            /\ pc' = "tarjan"
            /\ UNCHANGED <<referrers, extraids, layer, blocked, edgevars>>
       ELSE /\ ~Fails(Len(EdgeCalls(a.front)))
            /\ calls' = calls + Len(EdgeCalls(a.front))
            /\ calllog' = calllog \o EdgeCalls(a.front)
            /\ \E newreferrers \in {get_referrers(a.front)} :
                   /\ Filtered(a, BfsFilter(newreferrers,
                          extraids \cup {ReferrersId(layer), FrontId(layer), NewReferrersId(layer)}))
                   /\ blocked' = blocked \cup (Node \cap FirstMetIgnored(newreferrers, 1,
                          a.visited \cup blocked,
                          extraids \cup {ReferrersId(layer), FrontId(layer), NewReferrersId(layer)},
                          {}))
            /\ UNCHANGED <<V, onStack, sccs, pc>>

\* one iteration of `while True` in _bfs (lines 250-276); on break, the
\* return (282) and tarjan's lines 167-171 and 221
BfsLayer ==
    /\ pc = "bfs"
    /\ \E a \in {AdmitLoop(referrers, 1, visited, <<>>, id_to_obj)} : BfsStep(a)
    /\ UNCHANGED <<mpivars, besides, inputs, index, lowlink, S, gindex, checkvars, histvars>>

\* a handler that swallows the exception where it was raised
UnwindsNowhere(where) == where

\* where the check is once an exception was raised in `where`: no try
\* statement encloses the calls of the edge function (lines 270 and 186), nor
\* the calls of _bfs (160) and tarjan (34, 60): the check is left
Unwinds(where) == "done"

\* lines 267-270, once the loop over referrers has ended in a with a front
\* and the edge function raises
BfsRaise(a) ==
    /\ ~BfsBreak(a.front)
    /\ Fails(Len(EdgeCalls(a.front)))
    /\ visited' = a.visited
    /\ front' = a.front
    /\ met' = met \cup Range(referrers)
    /\ admitted' = admitted \cup Range(a.front)
    /\ id_to_obj' = a.id_to_obj
    /\ extraids' = extraids \cup {ReferrersId(layer), FrontId(layer)}
    /\ calllog' = calllog \o SubSeq(EdgeCalls(a.front), 1, failat - calls)
    /\ calls' = failat

\* the iteration of `while True` in which get_referrers(*front) raises
BfsEdgeFails ==
    /\ pc = "bfs"
    /\ failat # 0
    /\ BfsRaise(AdmitLoop(referrers, 1, visited, <<>>, id_to_obj))
    /\ pc' = Unwinds("bfs")
    /\ outcome' = "EdgeError"
    /\ raised' = EdgeError
    /\ UNCHANGED <<mpivars, besides, inputs, referrers, layer, tarjanvars, result, shown, collected,
                   stdout, blocked, histvars>>

\* the closure state of strongly_connect
ClosureState ==
    [index |-> index, lowlink |-> lowlink, onStack |-> onStack,
     S |-> S, gindex |-> gindex, id_to_obj |-> id_to_obj,
     calls |-> calls, failat |-> failat, failed |-> FALSE]

\* strongly_connect(v) was left by the exception of the edge function in c:
\* sccs.extend is not reached
Unwound(c) ==
    /\ c.st.failed
    /\ index' = c.st.index
    /\ lowlink' = c.st.lowlink
    /\ onStack' = c.st.onStack
    /\ S' = c.st.S
    /\ gindex' = c.st.gindex
    /\ calls' = c.st.calls

\* sccs.extend(strongly_connect(v)), once the call has returned c
Extend(c) ==
    /\ ~c.st.failed
    /\ calls' = c.st.calls
    /\ index' = c.st.index
    /\ lowlink' = c.st.lowlink
    /\ onStack' = c.st.onStack
    /\ S' = c.st.S
    /\ gindex' = c.st.gindex
    /\ sccs' = sccs \o c.sccs

\* the check the caller is running: its seeds and its edge function
Key == <<objs, fn>>

\* v is what `for v in V` yields next among the objects not in index: a set
\* is iterated in an order the program does not choose, and a set built again
\* from the same identities by the same insertions is iterated in the same
\* order
Yields(v) ==
    (Key \in DOMAIN seen /\ seen[Key].V = V /\ Len(roots) < Len(seen[Key].roots))
        => v = seen[Key].roots[Len(roots) + 1]

\* one iteration of `for v in V` that finds v not in index (lines 222-224)
TarjanVisit ==
    /\ pc = "tarjan"
    /\ \E v \in V \ DOMAIN index :
           /\ Yields(v)
           /\ Extend(strongly_connect(ClosureState, V, v))
           /\ roots' = Append(roots, v)
    /\ UNCHANGED <<mpivars, besides, inputs, pc, bfsvars, V, checkvars, calllog, idvars, blocked, run, seen>>

\* the iteration of `for v in V` in which a get_referrers(id_to_obj[w])
\* raises, in strongly_connect(v) or in a call below it
TarjanEdgeFails ==
    /\ pc = "tarjan"
    /\ failat # 0
    /\ \E v \in V \ DOMAIN index :
           /\ Yields(v)
           /\ Unwound(strongly_connect(ClosureState, V, v))
           /\ roots' = Append(roots, v)
    /\ pc' = Unwinds("tarjan")
    /\ outcome' = "EdgeError"
    /\ raised' = EdgeError
    /\ UNCHANGED <<mpivars, besides, inputs, bfsvars, V, sccs, result, shown, collected, stdout, calllog,
                   idvars, blocked, run, seen>>

\* the loop is over: return sorted(sccs, key=lambda x: -len(x))
TarjanReturn ==
    /\ pc = "tarjan"
    /\ V \ DOMAIN index = {}
    /\ result' = sorted(sccs)
    /\ pc' = "returned"
    /\ UNCHANGED <<mpivars, besides, inputs, bfsvars, tarjanvars, shown, collected, outcome, stdout, raised,
                   edgevars, idvars, blocked, histvars>>

\* assert len(sccs) == 0
AssertHolds(s) == Len(s) = 0

\* max_depth=len(scc) + 5
DepthMargin == 5

\* what show_cycles prints and draws for one component (lines 77-80): the
\* type histogram of its objects (every object of the heap is of one type)
\* and their back references, max_depth deep, among the objects of scc
ShowOne(scc) ==
    [typestats |-> Cardinality(Range(scc)),
     objs |-> Range(scc),
     max_depth |-> Len(scc) + DepthMargin]

\* show_cycles(sccs, joined=True): one report for all the components
show_cycles_joined(s) ==
    <<[typestats |-> Cardinality(UNION {Range(s[i]) : i \in DOMAIN s}),
       objs |-> UNION {Range(s[i]) : i \in DOMAIN s},
       max_depth |-> Cardinality(UNION {Range(s[i]) : i \in DOMAIN s}) + DepthMargin]>>

\* show_cycles(sccs): for scc in a, with a = sccs
show_cycles(s) == [i \in DOMAIN s |-> ShowOne(s[i])]

\* a check that never reports
ReportsNever(s) == FALSE

\* if len(sccs) > 0
Reports(s) == Len(s) > 0

\* if len(sccs) > 0: show_cycles(sccs)
ShowCycles ==
    /\ pc = "returned"
    /\ Reports(result)
    /\ shown' = shown + 1
    /\ stdout' = stdout \o show_cycles(result)
    /\ pc' = "reported"
    /\ UNCHANGED <<mpivars, besides, inputs, bfsvars, tarjanvars, result, collected, outcome, raised,
                   edgevars, idvars, blocked, histvars>>

\* assert len(sccs) == 0, after show_cycles or with nothing to show
CheckSccs ==
    /\ pc = "reported" \/ (pc = "returned" /\ ~Reports(result))
    /\ outcome' = IF AssertHolds(result) THEN "passed" ELSE "AssertionError"
    /\ raised' = IF AssertHolds(result) THEN NoException ELSE AssertionError
    /\ pc' = "done"
    /\ UNCHANGED <<mpivars, besides, inputs, bfsvars, tarjanvars, result, shown, collected, stdout,
                   edgevars, idvars, blocked, histvars>>

Next == Call \/ BfsLayer \/ TarjanVisit \/ TarjanReturn \/ ShowCycles \/ CheckSccs

Spec == Init /\ [][Next]_vars

\* the small heaps under a single seed
InitLive ==
    /\ adj \in Heaps(SmallNodes, SmallEdges)
    /\ ign \in Heaps(SmallNodes, MaxIgnore)
    /\ objs \in {t \in SeedTuples(SmallNodes, MaxSeeds) : Len(t) = 1}
    /\ fn \in {"assert_no_cycles", "assert_no_backcycles"}
    /\ rev = FALSE
    /\ tok = [x \in DOMAIN adj |-> id(x)]
    /\ failat = 0
    /\ squeeze = TRUE
    /\ InitLocals

\* the check is one thread that runs on: the call is made, and every
\* iteration of _bfs that can be taken is taken
LiveSpec == InitLive /\ [][Next]_vars /\ WF_vars(Call) /\ WF_vars(BfsLayer)

\* the check has ended, its frames are gone, and the caller makes another
\* check of the same heap: any single seed, either public check
Again ==
    /\ pc = "done"
    /\ run < MaxRuns
    /\ run' = run + 1
    /\ seen' = IF Key \in DOMAIN seen THEN seen
                ELSE Put(seen, Key, [V |-> V, roots |-> roots, result |-> result])
    /\ objs' \in {t \in SeedTuples(SmallNodes, MaxSeeds) : Len(t) = 1}
    /\ fn' \in {"assert_no_cycles", "assert_no_backcycles"}
    /\ pc' = "start"
    /\ front' = <<>>
    /\ V' = {}
    /\ sccs' = <<>>
    /\ result' = <<>>
    /\ outcome' = "running"
    /\ stdout' = <<>>
    /\ raised' = NoException
    /\ blocked' = {}
    /\ roots' = <<>>
    /\ calls' = 0
    /\ calllog' = <<>>
    /\ met' = {}
    /\ admitted' = {}
    /\ UNCHANGED <<mpivars, besides, adj, ign, rev, tok, failat, squeeze, visited, referrers, extraids, layer, id_to_obj,
                   index, lowlink, onStack, S, gindex, shown, collected>>

NextRepeat == Next \/ Again

\* the small heaps under a single seed and an edge function that fails at
\* one of its calls, or never
InitFail ==
    /\ adj \in Heaps(SmallNodes, SmallEdges)
    /\ ign \in Heaps(SmallNodes, MaxIgnore)
    /\ objs \in {t \in SeedTuples(SmallNodes, MaxSeeds) : Len(t) = 1}
    /\ fn \in {"assert_no_cycles", "assert_no_backcycles"}
    /\ rev = FALSE
    /\ tok = [x \in DOMAIN adj |-> id(x)]
    /\ failat \in 0..MaxCalls
    /\ squeeze = TRUE
    /\ InitLocals

\* the small heaps under a getid that may give two objects one token
InitCollide ==
    /\ adj \in Heaps(SmallNodes, SmallEdges)
    /\ ign = AdjOf(SmallNodes, {})
    /\ objs \in SeedTuples(SmallNodes, MaxSeeds)
    /\ fn \in {"assert_no_cycles", "assert_no_backcycles"}
    /\ rev = FALSE
    /\ tok \in [1..SmallNodes -> 1..SmallNodes]
    /\ failat = 0
    /\ squeeze = TRUE
    /\ InitLocals

\* the steps of a check around a tarjan that was handed its own getid
CollideSpec == InitCollide /\ [][Next]_vars

NextFail == Next \/ BfsEdgeFails \/ TarjanEdgeFails

\* a check with an edge function that may fail
FailSpec == InitFail /\ [][NextFail]_vars

\* a caller that makes MaxRuns checks of one heap
RepeatSpec == InitLive /\ [][NextRepeat]_vars

\* the check the caller is running and the order in which the heap lists
OrderKey(r) == <<objs, fn, r>>

\* the big heaps of SmallEdges edges or fewer under a single seed, any
\* policy of MaxIgnore objects or fewer, listed in ascending order; a seed of
\* the upper half is a seed of the lower half in the heap numbered backwards
InitOrder ==
    /\ adj \in Heaps(BigNodes, SmallEdges)
    /\ ign \in Heaps(BigNodes, MaxIgnore)
    /\ objs \in {t \in SeedTuples(BigNodes, MaxSeeds) : Len(t) = 1 /\ 2 * t[1] <= BigNodes}
    /\ fn \in {"assert_no_cycles", "assert_no_backcycles"}
    /\ rev = FALSE
    /\ tok = [x \in DOMAIN adj |-> id(x)]
    /\ failat = 0
    /\ squeeze = TRUE
    /\ InitLocals

\* the check has ended, its frames are gone, and the caller makes the same
\* check of the same heap, which now lists every set of neighbours in the
\* opposite order
Reorder ==
    /\ pc = "done"
    /\ run = 1
    /\ run' = run + 1
    /\ seen' = Put(seen, OrderKey(rev), [V |-> V, roots |-> roots, result |-> result])
    /\ rev' = ~rev
    /\ pc' = "start"
    /\ front' = <<>>
    /\ V' = {}
    /\ sccs' = <<>>
    /\ result' = <<>>
    /\ outcome' = "running"
    /\ stdout' = <<>>
    /\ raised' = NoException
    /\ blocked' = {}
    /\ roots' = <<>>
    /\ calls' = 0
    /\ calllog' = <<>>
    /\ met' = {}
    /\ admitted' = {}
    /\ UNCHANGED <<mpivars, besides, adj, ign, objs, fn, tok, failat, squeeze, visited, referrers, extraids,
                   layer, id_to_obj, index, lowlink, onStack, S, gindex, shown, collected>>

NextOrder == Next \/ Reorder

\* a caller that makes one check under both listing orders
OrderSpec == InitOrder /\ [][NextOrder]_vars

\* the small heaps, both edge functions, under either value of squeeze
InitSqueeze ==
    /\ adj \in Heaps(SmallNodes, SmallEdges)
    /\ ign \in Heaps(SmallNodes, MaxIgnore)
    /\ objs \in SeedTuples(SmallNodes, MaxSeeds)
    /\ fn \in {"assert_no_cycles", "assert_no_backcycles"}
    /\ rev = FALSE
    /\ tok = [x \in DOMAIN adj |-> id(x)]
    /\ failat = 0
    /\ squeeze \in BOOLEAN
    /\ InitLocals

\* the call has ended, its frames are gone, and the caller makes the same
\* call on the same heap with the other value of squeeze
Resqueeze ==
    /\ pc = "done"
    /\ run = 1
    /\ run' = run + 1
    /\ seen' = Put(seen, Key, [V |-> V, roots |-> roots, result |-> result])
    /\ squeeze' = ~squeeze
    /\ pc' = "start"
    /\ front' = <<>>
    /\ V' = {}
    /\ sccs' = <<>>
    /\ result' = <<>>
    /\ outcome' = "running"
    /\ stdout' = <<>>
    /\ raised' = NoException
    /\ blocked' = {}
    /\ roots' = <<>>
    /\ calls' = 0
    /\ calllog' = <<>>
    /\ met' = {}
    /\ admitted' = {}
    /\ UNCHANGED <<mpivars, besides, adj, ign, objs, fn, rev, tok, failat, visited, referrers,
                   extraids, layer, id_to_obj, index, lowlink, onStack, S, gindex, shown, collected>>

NextSqueeze == Next \/ Resqueeze

\* a caller that calls tarjan with squeeze=True and with squeeze=False
SqueezeSpec == InitSqueeze /\ [][NextSqueeze]_vars

\* ------------------------------------------------------------------ nompi
\* the ranks of comm
Ranks == 0..(size - 1)

\* how a block can end: normally, with an exception of a class derived from
\* Exception, or with one derived from BaseException only
Bodies == {"ok", "ValueError", "KeyboardInterrupt"}

\* except Exception as e: whether the handler takes the exception
IsException(b) == b = "ValueError"

\* all(...) in the place of any(...)
all(s) == \A i \in DOMAIN s : s[i]

\* any(comm.allgather(errored))
any(s) == \E i \in DOMAIN s : s[i]

\* lines 38-44 on rank r: the block runs under try
NompiBody(r) ==
    /\ rpc[r] = "try"
    /\ errored' = [errored EXCEPT ![r] = IsException(body[r])]
    /\ error' = [error EXCEPT ![r] = IF IsException(body[r]) THEN body[r] ELSE "None"]
    /\ rpc' = [rpc EXCEPT ![r] = "finally"]
    /\ UNCHANGED <<size, body, gathered, anyerrored, ended, gathers>>

\* line 46 on rank r: comm.allgather(errored) is called and hands in errored
NompiAllgather(r) ==
    /\ rpc[r] = "finally"
    /\ gathered' = Put(gathered, r, errored[r])
    /\ gathers' = [gathers EXCEPT ![r] = @ + 1]
    /\ rpc' = [rpc EXCEPT ![r] = "allgather"]
    /\ UNCHANGED <<size, body, errored, error, anyerrored, ended>>

\* line 46 on rank r: every rank has handed in, comm.allgather returns the
\* list and any(...) is taken of it
NompiGathered(r) ==
    /\ rpc[r] = "allgather"
    /\ DOMAIN gathered = Ranks
    /\ anyerrored' = [anyerrored EXCEPT ![r] = any(gathered)]
    /\ rpc' = [rpc EXCEPT ![r] = "gathered"]
    /\ UNCHANGED <<size, body, errored, error, gathered, ended, gathers>>

\* what rank r raises after finally: an exception the handler did not take
\* goes on; else lines 48-52
Leaves(r) ==
    IF body[r] # "ok" /\ ~IsException(body[r]) THEN body[r]
    ELSE IF anyerrored[r]
    THEN IF error[r] = "None" THEN "RuntimeError" ELSE error[r]
    ELSE "returned"

\* the end of the with statement on rank r
NompiLeave(r) ==
    /\ rpc[r] = "gathered"
    /\ ended' = [ended EXCEPT ![r] = Leaves(r)]
    /\ rpc' = [rpc EXCEPT ![r] = "done"]
    /\ UNCHANGED <<size, body, errored, error, gathered, anyerrored, gathers>>

NompiRank(r) ==
    /\ r \in Ranks
    /\ (NompiBody(r) \/ NompiAllgather(r) \/ NompiGathered(r) \/ NompiLeave(r))
    /\ UNCHANGED <<checkstate, besides>>

NextNompi == \E r \in 0..(MaxRanks - 1) : NompiRank(r)

\* every rank of a communicator of MaxRanks ranks or fewer enters
\* `with nompi(comm)`; no check runs
InitNompi ==
    /\ adj = AdjOf(1, {})
    /\ ign = AdjOf(1, {})
    /\ objs = <<>>
    /\ fn = "assert_no_cycles"
    /\ rev = FALSE
    /\ tok = [x \in DOMAIN adj |-> id(x)]
    /\ failat = 0
    /\ squeeze = TRUE
    /\ InitCheck
    /\ NoWorld
    /\ NoBench
    /\ size \in 1..MaxRanks
    /\ body \in [0..(size - 1) -> Bodies]
    /\ rpc = [r \in 0..(size - 1) |-> "try"]
    /\ errored = [r \in 0..(size - 1) |-> FALSE]
    /\ error = [r \in 0..(size - 1) |-> "None"]
    /\ gathered = EmptyMap
    /\ anyerrored = [r \in 0..(size - 1) |-> FALSE]
    /\ ended = [r \in 0..(size - 1) |-> "running"]
    /\ gathers = [r \in 0..(size - 1) |-> 0]

\* every rank is a process of its own that runs on
NompiSpec ==
    /\ InitNompi
    /\ [][NextNompi]_vars
    /\ \A r \in 0..(MaxRanks - 1) : WF_vars(NompiRank(r))

\* -------------------------------------------------------------- COMM_WORLD
\* the ranks of MPI.COMM_WORLD
World == 0..(world - 1)

worldinputs == <<world, tests, with_coverage, exists>>
testvars == <<tno, communicators, color, tended>>
endvars == <<code, status, aborted>>
rotvars == <<ri, rotlog>>

\* line 412: code = None
None == 0 - 1

\* the process of rank r runs on
Alive(r) == r \in World /\ status[r] = "running"

\* rank r calls a collective of its communicator and waits in it
CallWorld(r, op, arg, then) ==
    /\ wcalls' = [wcalls EXCEPT ![r] = Append(@, <<op, arg>>)]
    /\ wpc' = [wpc EXCEPT ![r] = then]

\* the collective rank r waits in can return: every rank has made its call
\* of that position
Arrived(r) == \A q \in World : Len(wcalls[q]) >= Len(wcalls[r])

\* what the ranks handed to the collective rank r waits in
Handed(r) == [q \in World |-> wcalls[q][Len(wcalls[r])]]

\* MPI requires the ranks of a communicator to call its collectives in one
\* order; rank r waits in a collective that some rank did not call at that
\* position, and what follows is undefined
Mismatched(r) ==
    /\ wcalls[r] # <<>>
    /\ \E q \in World : /\ Len(wcalls[q]) >= Len(wcalls[r])
                        /\ wcalls[q][Len(wcalls[r])][1] # wcalls[r][Len(wcalls[r])][1]

\* ----------------------------------------------------------------- MPITest
\* line 151: MPI.COMM_WORLD.allgather(func.__name__), the call
TestAllgather(r) ==
    /\ wpc[r] = "wrapped"
    /\ CallWorld(r, "allgather", tno[r], "allgather")
    /\ UNCHANGED <<worldinputs, testvars, endvars, rotvars>>

\* line 152: all(func_names[0] == i for i in func_names)
SameNames(names) == \A q \in DOMAIN names : names[q] = names[0]

\* create_comm, line 74
Color(r, n) == IF r < n THEN 0 ELSE 1

\* create_comm, lines 75-81: whether the communicator is made with Split
Splits(r, n) == n \notin communicators[r] /\ world # n /\ n # 1

\* lines 151-158: allgather returns, the names are compared and create_comm
\* runs up to its Split
TestCreateComm(r) ==
    /\ wpc[r] = "allgather"
    /\ Arrived(r)
    /\ IF ~SameNames(Handed(r))
       THEN /\ tended' = [tended EXCEPT ![r] = "RuntimeError"]
            /\ wpc' = [wpc EXCEPT ![r] = "ended"]
            /\ UNCHANGED <<wcalls, color, communicators>>
       ELSE IF world < tests[tno[r]].size
       THEN /\ tended' = [tended EXCEPT ![r] = "skipped"]
            /\ wpc' = [wpc EXCEPT ![r] = "ended"]
            /\ UNCHANGED <<wcalls, color, communicators>>
       ELSE /\ color' = [color EXCEPT ![r] = Color(r, tests[tno[r]].size)]
            /\ IF Splits(r, tests[tno[r]].size)
               THEN /\ CallWorld(r, "Split", 81, "Split")
                    /\ UNCHANGED communicators
               ELSE /\ communicators' = [communicators EXCEPT ![r] = @ \cup {tests[tno[r]].size}]
                    /\ wpc' = [wpc EXCEPT ![r] = "try"]
                    /\ UNCHANGED wcalls
            /\ UNCHANGED tended
    /\ UNCHANGED <<worldinputs, tno, endvars, rotvars>>

\* create_comm, lines 81-84: Split returns
TestSplit(r) ==
    /\ wpc[r] = "Split"
    /\ Arrived(r)
    /\ communicators' = [communicators EXCEPT ![r] = @ \cup {tests[tno[r]].size}]
    /\ wpc' = [wpc EXCEPT ![r] = "try"]
    /\ UNCHANGED <<worldinputs, wcalls, tno, color, tended, endvars, rotvars>>

\* lines 160-165: the body runs on the ranks of color 0
TestBody(r) ==
    /\ wpc[r] = "try"
    /\ tended' = [tended EXCEPT ![r] = IF color[r] = 0 THEN tests[tno[r]].body[r] ELSE "ok"]
    /\ wpc' = [wpc EXCEPT ![r] = "finally"]
    /\ UNCHANGED <<worldinputs, wcalls, tno, communicators, color, endvars, rotvars>>

\* a barrier after `try` in the place of one under `finally`
ClosesOnReturn(b) == b = "ok"

\* lines 166-168: the barrier stands under `finally`
Closes(b) == TRUE

\* line 168: MPI.COMM_WORLD.barrier(), the call
TestBarrier(r) ==
    /\ wpc[r] = "finally"
    /\ IF Closes(tended[r])
       THEN CallWorld(r, "barrier", 168, "barrier")
       ELSE wpc' = [wpc EXCEPT ![r] = "ended"] /\ UNCHANGED wcalls
    /\ UNCHANGED <<worldinputs, testvars, endvars, rotvars>>

\* lines 168-170: the barrier returns and the test ends
TestReturn(r) ==
    /\ wpc[r] = "barrier"
    /\ Arrived(r)
    /\ wpc' = [wpc EXCEPT ![r] = "ended"]
    /\ UNCHANGED <<worldinputs, wcalls, testvars, endvars, rotvars>>

TestRank(r) ==
    /\ Alive(r)
    /\ \/ TestAllgather(r)
       \/ TestCreateComm(r)
       \/ TestSplit(r)
       \/ TestBody(r)
       \/ TestBarrier(r)
       \/ TestReturn(r)
    /\ UNCHANGED <<checkstate, mpivars, benchvars>>

NextTest == \E r \in 0..(MaxRanks - 1) : TestRank(r)

\* the size parameters of the tests: the worlds and one more
CommSizes == 1..(MaxRanks + 1)

\* the ranks of a world of MaxRanks ranks or fewer, before main
InitWorld ==
    /\ world \in 1..MaxRanks
    /\ tno = [r \in World |-> 1]
    /\ wcalls = [r \in World |-> <<>>]
    /\ color = [r \in World |-> 0]
    /\ tended = [r \in World |-> "running"]
    /\ code = [r \in World |-> None]
    /\ status = [r \in World |-> "running"]
    /\ aborted = FALSE
    /\ ri = [r \in World |-> 0]
    /\ rotlog = <<>>

\* nothing but the world runs
InitIdle ==
    /\ adj = AdjOf(1, {})
    /\ ign = AdjOf(1, {})
    /\ objs = <<>>
    /\ fn = "assert_no_cycles"
    /\ rev = FALSE
    /\ tok = [x \in DOMAIN adj |-> id(x)]
    /\ failat = 0
    /\ squeeze = TRUE
    /\ InitCheck
    /\ NoRanks

\* every rank of the world enters one wrapped test, the first of its size
\* or a later one
InitTest ==
    /\ InitIdle
    /\ NoBench
    /\ InitWorld
    /\ wpc = [r \in World |-> "wrapped"]
    /\ \E n \in CommSizes :
          /\ tests \in {<<[size |-> n, body |-> b]>> : b \in [World -> Bodies]}
          /\ \E cached \in {{}, {n}} : communicators = [r \in World |-> cached]
    /\ with_coverage = FALSE
    /\ exists = [r \in World |-> TRUE]

\* every rank is a process of its own that runs on
TestSpec ==
    /\ InitTest
    /\ [][NextTest]_vars
    /\ \A r \in 0..(MaxRanks - 1) : WF_vars(TestRank(r))

\* ----------------------------------------------------------------- Rotator
\* no barriers before the body
EnterBarriersNone(r) == 0

\* line 29: range(self.comm.rank)
EnterBarriers(r) == r

\* line 28 on rank r: __enter__ calls the first Barrier
RotatorEnter(r) ==
    /\ wpc[r] = "Rotator"
    /\ CallWorld(r, "Barrier", 28, "enter")
    /\ ri' = [ri EXCEPT ![r] = 0]
    /\ UNCHANGED <<worldinputs, testvars, endvars, rotlog>>

\* lines 29-30 on rank r: the last Barrier has returned and the loop of
\* __enter__ calls the next
RotatorEnterLoop(r) ==
    /\ wpc[r] = "enter"
    /\ Arrived(r)
    /\ ri[r] < EnterBarriers(r)
    /\ CallWorld(r, "Barrier", 30, "enter")
    /\ ri' = [ri EXCEPT ![r] = @ + 1]
    /\ UNCHANGED <<worldinputs, testvars, endvars, rotlog>>

\* __enter__ returns on rank r and the block under `with` starts
RotatorBody(r) ==
    /\ wpc[r] = "enter"
    /\ Arrived(r)
    /\ ri[r] >= EnterBarriers(r)
    /\ wpc' = [wpc EXCEPT ![r] = "body"]
    /\ rotlog' = Append(rotlog, <<"begin", r>>)
    /\ UNCHANGED <<worldinputs, wcalls, testvars, endvars, ri>>

\* how the block under Rotator ends on rank r: the block of
\* _end_capture_and_exit (lines 494-500, reached with code 0) returns
Block(r) == IF code[r] = 0 THEN "ok" ELSE tests[tno[r]].body[r]

\* the block ends on rank r, by return or by an exception, and __exit__
\* starts: line 32, i = self.comm.rank
RotatorExit(r) ==
    /\ wpc[r] = "body"
    /\ wpc' = [wpc EXCEPT ![r] = "exit"]
    /\ ri' = [ri EXCEPT ![r] = r]
    /\ tended' = [tended EXCEPT ![r] = Block(r)]
    /\ rotlog' = Append(rotlog, <<"end", r>>)
    /\ UNCHANGED <<worldinputs, wcalls, tno, communicators, color, endvars>>

\* lines 32-33 on rank r: the loop of __exit__ calls the next Barrier
RotatorExitLoop(r) ==
    /\ wpc[r] = "exit"
    /\ Arrived(r)
    /\ ri[r] < world
    /\ CallWorld(r, "Barrier", 33, "exit")
    /\ ri' = [ri EXCEPT ![r] = @ + 1]
    /\ UNCHANGED <<worldinputs, testvars, endvars, rotlog>>

\* line 34 on rank r: the loop is over and __exit__ calls the last Barrier
RotatorExitLast(r) ==
    /\ wpc[r] = "exit"
    /\ Arrived(r)
    /\ ri[r] >= world
    /\ CallWorld(r, "Barrier", 34, "last")
    /\ UNCHANGED <<worldinputs, testvars, endvars, rotvars>>

\* the last Barrier returns and __exit__ returns None: an exception of the
\* block goes on
RotatorLeave(r) ==
    /\ wpc[r] = "last"
    /\ Arrived(r)
    /\ wpc' = [wpc EXCEPT ![r] = "rotated"]
    /\ UNCHANGED <<worldinputs, wcalls, testvars, endvars, rotvars>>

RotatorRank(r) ==
    /\ Alive(r)
    /\ \/ RotatorEnter(r)
       \/ RotatorEnterLoop(r)
       \/ RotatorBody(r)
       \/ RotatorExit(r)
       \/ RotatorExitLoop(r)
       \/ RotatorExitLast(r)
       \/ RotatorLeave(r)
    /\ UNCHANGED <<checkstate, mpivars, benchvars>>

NextRotator == \E r \in 0..(MaxRanks - 1) : RotatorRank(r)

\* every rank of a communicator of MaxRanks ranks or fewer enters
\* `with Rotator(comm)`; the block ends on each rank in one of the ways a
\* block can end
InitRotator ==
    /\ InitIdle
    /\ NoBench
    /\ InitWorld
    /\ wpc = [r \in World |-> "Rotator"]
    /\ tests \in {<<[size |-> world, body |-> b]>> : b \in [World -> Bodies]}
    /\ communicators = [r \in World |-> {}]
    /\ with_coverage = FALSE
    /\ exists = [r \in World |-> TRUE]

\* every rank is a process of its own that runs on
RotatorSpec ==
    /\ InitRotator
    /\ [][NextRotator]_vars
    /\ \A r \in 0..(MaxRanks - 1) : WF_vars(RotatorRank(r))

\* ------------------------------------------------------ Tester.main, --mpisub
\* Coverage.__exit__ and the wrapped tests call collectives of COMM_WORLD;
\* when the ranks do not call them in one order the behaviour is undefined:
\* the call returns as if matched, or it never returns
Waits == {"testdir", "allgather", "Split", "barrier", "bcast", "combine", "combined",
          "final", "enter", "last"}

\* lines 408-414, 510-514 on rank r: main enters _run_from_testdir, whose
\* assert fails without the test directory; with it, comm.barrier() is called
MainEnter(r) ==
    /\ wpc[r] = "main"
    /\ IF exists[r]
       THEN CallWorld(r, "barrier", 514, "testdir")
       ELSE wpc' = [wpc EXCEPT ![r] = "except"] /\ UNCHANGED wcalls
    /\ UNCHANGED <<worldinputs, testvars, endvars, rotvars>>

\* lines 514-516, 414: the barrier returns, Coverage.__enter__ runs and pytest
\* starts the first test
MainTest(r) ==
    /\ wpc[r] = "testdir"
    /\ Arrived(r)
    /\ wpc' = [wpc EXCEPT ![r] = "wrapped"]
    /\ UNCHANGED <<worldinputs, wcalls, testvars, endvars, rotvars>>

\* line 328, `-x`: pytest ends the session at the first test that did not pass
Bails(t) == t \notin {"ok", "skipped"}

\* pytest on rank r after a test: the next test, or the end of the session
\* with its code
SessionNext(r) ==
    /\ wpc[r] = "ended"
    /\ IF Bails(tended[r]) \/ tno[r] >= Len(tests)
       THEN /\ code' = [code EXCEPT ![r] = IF tended[r] \in {"ok", "skipped"} /\ code[r] = None
                                           THEN 0 ELSE 1]
            /\ wpc' = [wpc EXCEPT ![r] = "Coverage"]
            /\ UNCHANGED <<tno, tended>>
       ELSE /\ code' = [code EXCEPT ![r] = IF tended[r] \in {"ok", "skipped"} THEN @ ELSE 1]
            /\ tno' = [tno EXCEPT ![r] = @ + 1]
            /\ tended' = [tended EXCEPT ![r] = "running"]
            /\ wpc' = [wpc EXCEPT ![r] = "wrapped"]
    /\ UNCHANGED <<worldinputs, wcalls, communicators, color, status, aborted, rotvars>>

\* coverage.py, lines 56-74: Coverage.__exit__ returns at once without
\* coverage and writes by itself on one rank; else comm.bcast is called
CoverageExit(r) ==
    /\ wpc[r] = "Coverage"
    /\ IF ~with_coverage \/ world = 1
       THEN wpc' = [wpc EXCEPT ![r] = "tested"] /\ UNCHANGED wcalls
       ELSE CallWorld(r, "bcast", 74, "bcast")
    /\ UNCHANGED <<worldinputs, testvars, endvars, rotvars>>

\* coverage.py, lines 74-82: bcast returns, the data file is written and
\* comm.barrier() is called
CoverageBcast(r) ==
    /\ wpc[r] = "bcast"
    /\ Arrived(r)
    /\ CallWorld(r, "barrier", 82, "combine")
    /\ UNCHANGED <<worldinputs, testvars, endvars, rotvars>>

\* coverage.py, lines 82-93: the barrier returns, rank 0 combines, and
\* comm.barrier() is called under finally
CoverageCombine(r) ==
    /\ wpc[r] = "combine"
    /\ Arrived(r)
    /\ CallWorld(r, "barrier", 93, "combined")
    /\ UNCHANGED <<worldinputs, testvars, endvars, rotvars>>

\* coverage.py, lines 93-95: the last barrier returns and _test returns code
CoverageReturn(r) ==
    /\ wpc[r] = "combined"
    /\ Arrived(r)
    /\ wpc' = [wpc EXCEPT ![r] = "tested"]
    /\ UNCHANGED <<worldinputs, wcalls, testvars, endvars, rotvars>>

\* self.comm.Abort(-1) on rank r
Abort(r) ==
    /\ aborted' = TRUE
    /\ status' = [status EXCEPT ![r] = "aborted"]
    /\ wpc' = [wpc EXCEPT ![r] = "Abort"]

\* lines 416-422 on rank r: the session raised
MainExcept(r) ==
    /\ wpc[r] = "except"
    /\ Abort(r)
    /\ UNCHANGED <<worldinputs, wcalls, testvars, code, rotvars>>

\* lines 427-428, 481-492 on rank r: _end_capture_and_exit aborts the world
\* on a code other than 0 and calls comm.barrier() on 0
MainEnd(r) ==
    /\ wpc[r] = "tested"
    /\ IF code[r] # 0
       THEN Abort(r) /\ UNCHANGED wcalls
       ELSE CallWorld(r, "barrier", 492, "final") /\ UNCHANGED <<status, aborted>>
    /\ UNCHANGED <<worldinputs, testvars, code, rotvars>>

\* lines 492-493 on rank r: the barrier returns and the Rotator block is next
MainRotate(r) ==
    /\ wpc[r] = "final"
    /\ Arrived(r)
    /\ wpc' = [wpc EXCEPT ![r] = "Rotator"]
    /\ UNCHANGED <<worldinputs, wcalls, testvars, endvars, rotvars>>

\* line 502 on rank r: sys.exit(0)
MainExit(r) ==
    /\ wpc[r] = "rotated"
    /\ status' = [status EXCEPT ![r] = "exit0"]
    /\ wpc' = [wpc EXCEPT ![r] = "exited"]
    /\ UNCHANGED <<worldinputs, wcalls, testvars, code, aborted, rotvars>>

\* MPI ends the process of rank r after some rank has called Abort
Kill(r) ==
    /\ aborted
    /\ status' = [status EXCEPT ![r] = "killed"]
    /\ UNCHANGED <<worldinputs, wpc, wcalls, testvars, code, aborted, rotvars>>

\* rank r waits in a collective that another rank did not call at that
\* position, and the call never returns
Hang(r) ==
    /\ wpc[r] \in Waits
    /\ Mismatched(r)
    /\ wpc' = [wpc EXCEPT ![r] = "hung"]
    /\ UNCHANGED <<worldinputs, wcalls, testvars, endvars, rotvars>>

SubRank(r) ==
    /\ Alive(r)
    /\ \/ MainEnter(r)
       \/ MainTest(r)
       \/ TestAllgather(r)
       \/ TestCreateComm(r)
       \/ TestSplit(r)
       \/ TestBody(r)
       \/ TestBarrier(r)
       \/ TestReturn(r)
       \/ SessionNext(r)
       \/ CoverageExit(r)
       \/ CoverageBcast(r)
       \/ CoverageCombine(r)
       \/ CoverageReturn(r)
       \/ MainExcept(r)
       \/ MainEnd(r)
       \/ MainRotate(r)
       \/ RotatorEnter(r)
       \/ RotatorEnterLoop(r)
       \/ RotatorBody(r)
       \/ RotatorExit(r)
       \/ RotatorExitLoop(r)
       \/ RotatorExitLast(r)
       \/ RotatorLeave(r)
       \/ MainExit(r)
       \/ Kill(r)
       \/ Hang(r)
    /\ UNCHANGED <<checkstate, mpivars, benchvars>>

NextSub == \E r \in 0..(MaxRanks - 1) : SubRank(r)

\* how a test body ends on the ranks of a session: it returns on all, or it
\* raises on one
OneRaises == {b \in [World -> {"ok", "ValueError"}] :
                 Cardinality({r \in World : b[r] # "ok"}) <= 1}

\* the sessions of MaxTests tests or fewer
RECURSIVE Sessions(_)
Sessions(n) ==
    IF n = 0 THEN {<<>>}
    ELSE LET P == Sessions(n - 1)
         IN P \cup {Append(s, [size |-> m, body |-> b]) :
                       s \in {p \in P : Len(p) = n - 1}, m \in 1..(world + 1), b \in OneRaises}

\* mpirun has started main with --mpisub on every rank of a world of
\* MaxRanks ranks or fewer; the test directory is missing on one rank at most
InitSub ==
    /\ InitIdle
    /\ NoBench
    /\ InitWorld
    /\ wpc = [r \in World |-> "main"]
    /\ tests \in Sessions(MaxTests) \ {<<>>}
    /\ communicators = [r \in World |-> {}]
    /\ with_coverage \in BOOLEAN
    /\ exists \in {e \in [World -> BOOLEAN] : Cardinality({r \in World : ~e[r]}) <= 1}

\* every rank is a process of its own that runs on, up to a collective that
\* the ranks did not call in one order
SubSpec ==
    /\ InitSub
    /\ [][NextSub]_vars
    /\ \A r \in 0..(MaxRanks - 1) : WF_vars(SubRank(r) /\ wpc'[r] # "hung")

\* --------------------------------------------------------- BenchmarkLogger
\* the test functions, in the order of their file names
Funcs == 1..MaxFuncs

\* BenchmarkTimer, line 181: the file of a result; a key of self.benchmarks
\* is <<test function, number of the variant>>
Filename(name) == name[1]

\* add_benchmark: one more result of test function f
AddBenchmark(f) ==
    /\ ~reported
    /\ Len(benchmarks) < MaxAdds
    /\ benchmarks' = Append(benchmarks, <<f, tests_counter[f]>>)
    /\ tests_counter' = [tests_counter EXCEPT ![f] = @ + 1]
    /\ UNCHANGED <<files, writes, reported>>

\* itertools.groupby(self.benchmarks.keys(), key=keyfunc): a group is a run
\* of neighbouring keys of one file name
RECURSIVE GroupLoop(_, _, _)
GroupLoop(keys, i, groups) ==
    IF i > Len(keys) THEN groups
    ELSE IF groups # <<>> /\ groups[Len(groups)][1] = Filename(keys[i])
    THEN GroupLoop(keys, i + 1,
                   [groups EXCEPT ![Len(groups)] = <<@[1], Append(@[2], keys[i])>>])
    ELSE GroupLoop(keys, i + 1, Append(groups, <<Filename(keys[i]), <<keys[i]>>>>))

groupby(keys) == GroupLoop(keys, 1, <<>>)

\* sorted(groups, key=lambda x: x[0]): a stable sort by file name
RECURSIVE InsertByKey(_, _)
InsertByKey(s, x) ==
    IF s = <<>> THEN <<x>>
    ELSE IF s[Len(s)][1] <= x[1] THEN Append(s, x)
    ELSE Append(InsertByKey(SubSeq(s, 1, Len(s) - 1), x), s[Len(s)])

RECURSIVE SortGroups(_, _, _)
SortGroups(s, i, acc) ==
    IF i > Len(s) THEN acc ELSE SortGroups(s, i + 1, InsertByKey(acc, s[i]))

\* sorted(subgroup): the keys of one file name, by the number of the variant
RECURSIVE SortNames(_)
SortNames(X) ==
    IF X = {} THEN <<>>
    ELSE LET m == CHOOSE x \in X : \A y \in X : x[2] <= y[2]
         IN <<m>> \o SortNames(X \ {m})

\* lines 108-151: one file is written per group, over the file an earlier
\* group of that name has written
RECURSIVE WriteLoop(_, _, _)
WriteLoop(groups, i, written) ==
    IF i > Len(groups) THEN written
    ELSE WriteLoop(groups, i + 1, Put(written, groups[i][1], SortNames(Range(groups[i][2]))))

\* report(), without a communicator
Report ==
    /\ ~reported
    /\ reported' = TRUE
    /\ files' = WriteLoop(SortGroups(groupby(benchmarks), 1, <<>>), 1, EmptyMap)
    /\ writes' = Len(groupby(benchmarks))
    /\ UNCHANGED <<benchmarks, tests_counter>>

NextBench ==
    \/ (\E f \in Funcs : AddBenchmark(f)) /\ UNCHANGED <<checkstate, mpivars, worldvars>>
    \/ Report /\ UNCHANGED <<checkstate, mpivars, worldvars>>

\* a fresh BenchmarkLogger; nothing else runs
InitBench ==
    /\ InitIdle
    /\ NoWorld
    /\ benchmarks = <<>>
    /\ tests_counter = [f \in Funcs |-> 0]
    /\ files = EmptyMap
    /\ writes = 0
    /\ reported = FALSE

BenchSpec == InitBench /\ [][NextBench]_vars

\* ------------------------------------------------------- graph vocabulary
\* the neighbours of x in the direction the running check follows
Edge(x) == IF fn = "assert_no_cycles" THEN adj[x] ELSE {y \in Node : x \in adj[y]}

\* the least superset of R closed under the edges that lead into A
RECURSIVE ReachLoop(_, _)
ReachGrown(R, R2, A) == IF R2 = R THEN R ELSE ReachLoop(R2, A)
ReachLoop(R, A) == ReachGrown(R, R \cup {y \in A : \E x \in R : y \in Edge(x)}, A)

\* what X reaches by zero or more edges between objects of A
Reach(X, A) == ReachLoop(X \cap A, A)

\* what x reaches by one or more edges between objects of A
After(x, A) == ReachLoop({y \in A : y \in Edge(x)}, A)

\* u and v lie on a common directed cycle of edges between objects of A
Mutual(u, v, A) == u \in After(v, A) /\ v \in After(u, A)

Seeds == Range(objs)

\* _bfs has returned
Collected == pc \in {"tarjan", "returned", "reported", "done"}

\* tarjan has returned
Returned == pc \in {"returned", "reported", "done"}

Components == {Range(result[i]) : i \in DOMAIN result}

Sizes(s) == [i \in DOMAIN s |-> Len(s[i])]

\* ------------------------------------------------------------------ claims
\* C1: every component tarjan returns is genuine: a component of two or
\* more objects is strongly connected by edges between objects of V, and a
\* component of one object is an object with an edge to itself.
GenuineComponents ==
    Returned =>
        \A i \in DOMAIN result :
            /\ Len(result[i]) >= 1
            /\ Cardinality(Range(result[i])) = Len(result[i])
            /\ Range(result[i]) \subseteq V
            /\ Len(result[i]) >= 2 =>
                   \A a, b \in Range(result[i]) : a # b => b \in After(a, V)
            /\ Len(result[i]) = 1 => result[i][1] \in Edge(result[i][1])

\* a check that returned a component of two or more objects and one of a
\* single object
GenuineComponentsWitness ==
    /\ pc = "done"
    /\ \E i, j \in DOMAIN result : Len(result[i]) >= 2 /\ Len(result[j]) = 1

\* C2: every object of V on a directed cycle of edges between objects of V
\* (a self-edge included) is in exactly one returned component, and the
\* objects of one cycle are in the same component.
CompleteComponents ==
    Returned =>
        /\ \A v \in V : v \in After(v, V) =>
               Cardinality({i \in DOMAIN result : v \in Range(result[i])}) = 1
        /\ \A u, v \in V : Mutual(u, v, V) =>
               \E i \in DOMAIN result : {u, v} \subseteq Range(result[i])

\* a check that found a cycle of three objects reached from outside it
CompleteComponentsWitness ==
    /\ pc = "done"
    /\ \E i \in DOMAIN result : Len(result[i]) = 3
    /\ Cardinality(V) > 3

\* C3: when the graph on V has no directed cycle and no self-edge, tarjan
\* returns an empty list and the check returns normally, without a report.
AcyclicPasses ==
    (\A v \in V : v \notin After(v, V)) =>
        /\ Returned => result = <<>>
        /\ pc = "done" => outcome = "passed" /\ shown = 0

\* a check that passed on three or more objects
AcyclicPassesWitness ==
    /\ pc = "done"
    /\ outcome = "passed"
    /\ Cardinality(V) >= 3
    /\ \A v \in V : v \notin After(v, V)

\* C4: an object of V is returned as a component of its own exactly when it
\* has an edge to itself and lies on no cycle with another object of V.
SqueezeRule ==
    Returned =>
        \A v \in V :
            (\E i \in DOMAIN result : result[i] = <<v>>)
                <=> (v \in Edge(v) /\ \A u \in V \ {v} : ~Mutual(u, v, V))

\* a check that returned a self-loop and dropped a lone object without one
SqueezeRuleWitness ==
    /\ pc = "done"
    /\ \E v \in V : <<v>> \in Range(result)
    /\ \E u \in V : u \notin Edge(u) /\ u \notin UNION Components

\* C5 as stated: every returned object is reached from a seed along a path
\* that holds no object of the ignore set (extraids).
IgnoredNeverPassed ==
    Collected => V \subseteq Reach(Seeds \ extraids, Node \ extraids)

\* C5 as amended: every returned object is reached from a seed along a path
\* that holds no object that was in the ignore set when _bfs first met it;
\* no component holds an object outside the returned set.
BlockedNeverPassed ==
    /\ Collected => V \subseteq Reach(Seeds, Node \ blocked)
    /\ Returned => UNION Components \subseteq V

\* a collection that left out an object it could only reach through an
\* object that was ignored when first met
BlockedNeverPassedWitness ==
    /\ Collected
    /\ blocked # {}
    /\ V # {}
    /\ Reach(Seeds, Node) \ (Reach(Seeds, Node \ blocked) \cup blocked) # {}

\* C6 as stated: at every point of a collection, extraids and visited are
\* disjoint.
AlwaysDisjoint == visited \cap extraids = {}

\* C6 as amended: the set _bfs returns and extraids are disjoint, and at
\* every point visited holds no object that was in extraids when _bfs first
\* met it.
ReturnedDisjoint ==
    /\ Collected => V \cap extraids = {}
    /\ visited \cap blocked = {}

\* a collection whose return took an admitted object out of the result
ReturnedDisjointWitness ==
    /\ Collected
    /\ visited \cap extraids # {}
    /\ blocked # {}
    /\ V # {}

\* C7 as stated: the returned set holds every seed.
SeedsReturned == Collected => Seeds \subseteq V

\* C7 as amended: the returned set holds every seed that is not in extraids
\* at the return, and visited holds every seed from the first layer on.
CleanSeedsReturned ==
    /\ Collected => (Seeds \ extraids) \subseteq V
    /\ (pc = "bfs" /\ layer > 1) \/ Collected => Seeds \subseteq visited

\* a collection that returned one seed and not the other
CleanSeedsReturnedWitness ==
    /\ Collected
    /\ Seeds \cap V # {}
    /\ Seeds \ V # {}

\* C8: under a policy that ignores nothing, _bfs returns exactly what the
\* seeds reach by zero or more edges.
ReturnsClosure ==
    (Collected /\ \A x \in Node : ign[x] = {}) => V = Reach(Seeds, Node)

\* a collection of three layers or more under a policy that ignores nothing
ReturnsClosureWitness ==
    /\ Collected
    /\ \A x \in Node : ign[x] = {}
    /\ layer >= 4
    /\ Cardinality(V) > Cardinality(Seeds)

\* C9: _bfs ends, an iteration that admits nothing is the last one, and
\* every earlier iteration makes visited strictly larger.
BfsTerminates ==
    /\ <>(pc \notin {"start", "bfs"})
    /\ [][pc = "bfs" =>
            /\ pc' = "bfs" => (front' # <<>> /\ visited \subseteq visited'
                                             /\ visited # visited')
            /\ pc' # "bfs" => (front' = <<>> /\ visited' = visited)]_vars

\* a collection that ended after three layers that admitted objects
BfsTerminatesWitness ==
    /\ pc = "tarjan"
    /\ layer >= 4
    /\ front = <<>>

\* C10: tarjan returns its components longest first.
LongestFirst ==
    Returned => \A i \in 1..(Len(result) - 1) : Len(result[i]) >= Len(result[i + 1])

\* the cycles of sizes 3 and 2, found in the other order
LongestFirstWitness ==
    /\ pc = "done"
    /\ Sizes(result) = <<3, 2>>
    /\ Sizes(sccs) = <<2, 3>>

\* C11: a check is a function of its inputs: a check of the same seeds with
\* the same edge function as an earlier check of the caller collects the
\* same V and returns the same components, grouped and ordered the same, and
\* every check starts from empty index, lowlink, onStack, S, visited and
\* id_to_obj and from an ignore set that holds the seed tuple alone.
SameAgain ==
    /\ (Returned /\ Key \in DOMAIN seen) =>
           (V = seen[Key].V /\ result = seen[Key].result)
    /\ (pc = "bfs" /\ layer = 1) =>
           /\ index = EmptyMap /\ lowlink = EmptyMap /\ onStack = EmptyMap
           /\ S = <<>> /\ gindex = 0
           /\ visited = {} /\ id_to_obj = EmptyMap /\ extraids = {ObjsId}

\* a third check that repeats an earlier one, after a check of another kind,
\* and returns two components of one size
SameAgainWitness ==
    /\ pc = "done"
    /\ run >= 3
    /\ Key \in DOMAIN seen
    /\ Cardinality(DOMAIN seen) >= 2
    /\ Len(result) = 2
    /\ Len(result[1]) = Len(result[2])

\* C12: a check whose component list is not empty calls show_cycles exactly
\* once, and before the assertion fails; a check whose list is empty never
\* calls it and returns normally.
ReportedOnce ==
    /\ [](pc = "done" =>
            /\ result # <<>> => (shown = 1 /\ outcome = "AssertionError")
            /\ result = <<>> => (shown = 0 /\ outcome = "passed"))
    /\ [][/\ outcome' # outcome => (shown' = shown /\ (result # <<>> => shown = 1))
          /\ shown' # shown => (outcome = "running" /\ outcome' = "running")]_vars

\* a failed check of two components, reported once
ReportedOnceWitness ==
    /\ pc = "done"
    /\ outcome = "AssertionError"
    /\ shown = 1
    /\ Len(result) = 2

EdgeFailureAborts ==
    /\ [](outcome = "EdgeError" =>
            /\ pc = "done"
            /\ raised = EdgeError
            /\ result = <<>>
            /\ shown = 0 /\ stdout = <<>>
            /\ calls = failat)
    /\ [](failat # 0 /\ outcome # "EdgeError" => calls < failat)
    /\ [][outcome = "EdgeError" =>
            (calls' = calls /\ result' = result /\ shown' = shown)]_vars

\* a failure of the edge function in a strongly_connect called by
\* strongly_connect, after two layers of _bfs
EdgeFailureAbortsWitness ==
    /\ outcome = "EdgeError"
    /\ Len(calllog) >= 2
    /\ calls >= Len(calllog) + 2
    /\ Len(S) >= 2

\* two distinct objects that _bfs has found have one token
Collision == \E a, b \in met : a # b /\ getid(a) = getid(b)

\* C15 as stated: a check in which getid gives two distinct objects one
\* token detects it and ends with an error of its own.
CollisionDetected ==
    (pc = "done" /\ Collision) => raised.type \notin {"none", "AssertionError"}

\* C15 as amended: the check does not detect it and ends as any check does;
\* the objects of one token are one node: _bfs admits the first it finds and
\* takes the others as already visited, so that visited, V and id_to_obj
\* hold one entry for them, the entry of the admitted object.
CollisionMerged ==
    /\ \A a, b \in admitted : a # b => getid(a) # getid(b)
    /\ \A a \in met : \E b \in admitted : getid(b) = getid(a)
    /\ visited = {getid(a) : a \in admitted}
    /\ Collected => \A k \in V : id_to_obj[k] \in admitted /\ getid(id_to_obj[k]) = k
    /\ pc = "done" => raised \in {NoException, AssertionError}

\* a check that passed although an object it found and took as visited
\* lies on a cycle
CollisionMergedWitness ==
    /\ pc = "done"
    /\ Collision
    /\ outcome = "passed"
    /\ \E x \in met \ admitted : x \in After(x, Node)

\* C16 as stated: a check never invokes the garbage collector.
NeverCollects == collected = 0

\* C16 as amended: a check invokes the garbage collector exactly once, as
\* its first statement, before tarjan runs, and never again until it ends.
CollectsOnEntry ==
    /\ [](collected = IF pc = "start" THEN 0 ELSE 1)
    /\ [][collected' # collected => (pc = "start" /\ pc' = "bfs" /\ visited' = {})]_vars

\* a check that collected once and went on to fail
CollectsOnEntryWitness ==
    /\ pc = "done"
    /\ collected = 1
    /\ outcome = "AssertionError"
    /\ fn = "assert_no_backcycles"

\* what the objects of R refer to, directly or through other objects, R
\* included
RECURSIVE RefersLoop(_)
RefersGrown(R, R2) == IF R2 = R THEN R ELSE RefersLoop(R2)
RefersLoop(R) == RefersGrown(R, R \cup UNION {adj[x] : x \in R})

\* C17: every object that assert_no_cycles collects or reports in a
\* component is referred to by a seed, directly or through other objects: a
\* cycle that refers to a seed and that no seed refers to is not reported.
ReportsReferredOnly ==
    fn = "assert_no_cycles" =>
        /\ Collected => V \subseteq RefersLoop(Seeds)
        /\ Returned => UNION Components \subseteq RefersLoop(Seeds)

\* a failed assert_no_cycles on a heap with a cycle that refers to a seed
\* and that no seed refers to
ReportsReferredOnlyWitness ==
    /\ pc = "done"
    /\ fn = "assert_no_cycles"
    /\ result # <<>>
    /\ \E x \in Node \ RefersLoop(Seeds) :
           /\ x \in RefersLoop(adj[x])
           /\ adj[x] \cap Seeds # {}

\* C18: every component that assert_no_backcycles reports holds a seed.
BackcyclesHoldSeed ==
    (fn = "assert_no_backcycles" /\ Returned) =>
        \A i \in DOMAIN result : Range(result[i]) \cap Seeds # {}

\* C19: _bfs calls the edge function once for every iteration that admits
\* an object, with the whole front of that iteration as argument list, and
\* in no other iteration: every admitted object is handed over once, in the
\* call of its layer, and the calls are as many as the layers that admitted
\* an object.
OneCallPerLayer ==
    /\ [][/\ visited' # visited <=> Len(calllog') = Len(calllog) + 1
          /\ calllog' # calllog =>
                 /\ calllog' = Append(calllog, front')
                 /\ front' # <<>>
                 /\ Range(front') = visited' \ visited]_vars
    /\ [](Collected =>
            \A x \in visited :
                Cardinality({p \in (DOMAIN calllog) \X (1..Cardinality(visited)) :
                    p[2] \in DOMAIN calllog[p[1]] /\ calllog[p[1]][p[2]] = x}) = 1)
    /\ [](pc = "bfs" \/ (pc = "tarjan" /\ roots = <<>>) => calls = Len(calllog))

\* a collection of two calls, the second with a front of two objects
OneCallPerLayerWitness ==
    /\ pc = "tarjan"
    /\ Len(calllog) = 2
    /\ Len(calllog[2]) = 2
    /\ calls = 2

\* C20: when every rank of comm enters nompi(comm), every rank leaves it
\* after exactly one allgather; if the block raised an Exception on some
\* rank, every rank raises: its own exception if its block raised one,
\* RuntimeError if not; if the block raised on no rank, no rank raises.
NompiAgrees ==
    /\ <>(\A r \in Ranks : rpc[r] = "done")
    /\ [](\A r \in Ranks :
            /\ gathers[r] <= 1
            /\ rpc[r] = "done" =>
                   /\ gathers[r] = 1
                   /\ (\E q \in Ranks : IsException(body[q])) =>
                          ended[r] = IF body[r] = "ok" THEN "RuntimeError" ELSE body[r]
                   /\ (\A q \in Ranks : body[q] = "ok") => ended[r] = "returned")

\* three ranks have left: the block raised on rank 0 only, rank 0 raised
\* its exception and the others RuntimeError
NompiAgreesWitness ==
    /\ size = 3
    /\ \A r \in Ranks : rpc[r] = "done"
    /\ body = [r \in Ranks |-> IF r = 0 THEN "ValueError" ELSE "ok"]
    /\ ended = [r \in Ranks |-> IF r = 0 THEN "ValueError" ELSE "RuntimeError"]

\* the closing barriers rank r has called in the running test
Closings(r) == Cardinality({i \in DOMAIN wcalls[r] : wcalls[r][i] = <<"barrier", 168>>})

\* C21: in a test wrapped by MPITest, once create_comm has succeeded every
\* rank of COMM_WORLD calls the closing barrier exactly once and returns
\* from it, whether it ran the body, sat out or its body raised; no rank
\* stays in the barrier.
ClosingBarrierOnce ==
    /\ <>(\A r \in World : wpc[r] = "ended")
    /\ [](\A r \in World :
            /\ Closings(r) <= 1
            /\ (wpc[r] = "ended" /\ tended[r] \notin {"skipped", "RuntimeError"}) =>
                   Closings(r) = 1)

\* a test of size 2 in a world of 3 has ended: the body returned on rank 0
\* and raised on rank 1, rank 2 sat out, and each called the closing barrier
ClosingBarrierOnceWitness ==
    /\ world = 3
    /\ tests[1].size = 2
    /\ \A r \in World : wpc[r] = "ended" /\ Closings(r) = 1
    /\ tended = [r \in World |-> IF r = 1 THEN "ValueError" ELSE "ok"]
    /\ color[2] = 1

\* C22: when all ranks of comm enter a Rotator block, the block of rank r
\* runs after r+1 barriers of rank r and before its next, the blocks run one
\* at a time in the order of the ranks, and every rank leaves after size+2
\* barriers.
RotatorTurns ==
    /\ <>(\A r \in World : wpc[r] = "rotated")
    /\ [](/\ \A r \in World : /\ wpc[r] = "body" => Len(wcalls[r]) = r + 1
                              /\ wpc[r] = "rotated" => Len(wcalls[r]) = world + 2
          /\ Cardinality({r \in World : wpc[r] = "body"}) <= 1
          /\ \A i \in DOMAIN rotlog :
                rotlog[i] = <<IF i % 2 = 1 THEN "begin" ELSE "end", (i - 1) \div 2>>)

\* three ranks have left the block after five barriers each; the blocks of
\* ranks 0, 1 and 2 ran in that order
RotatorTurnsWitness ==
    /\ world = 3
    /\ \A r \in World : wpc[r] = "rotated" /\ Len(wcalls[r]) = 5
    /\ rotlog = <<<<"begin", 0>>, <<"end", 0>>, <<"begin", 1>>, <<"end", 1>>,
                  <<"begin", 2>>, <<"end", 2>>>>

\* C23: after report(), the file of each file name lists every variant that
\* was recorded under that name with add_benchmark, whatever the order in
\* which the variants of different test functions were added.
ReportListsAll ==
    reported => \A i \in DOMAIN benchmarks :
                    /\ Filename(benchmarks[i]) \in DOMAIN files
                    /\ benchmarks[i] \in Range(files[Filename(benchmarks[i])])

\* the test session of rank r has ended with a code other than 0 or with an
\* exception
Failed(r) == wpc[r] = "except" \/ code[r] \notin {None, 0} \/ status[r] = "aborted"

\* rank r has passed the final barrier and the Rotator block
Rotated(r) ==
    /\ Cardinality({i \in DOMAIN wcalls[r] : wcalls[r][i] = <<"barrier", 492>>}) = 1
    /\ Cardinality({i \in DOMAIN wcalls[r] : wcalls[r][i][1] = "Barrier"}) = world + 2

\* C24: in a sub-process run, a rank whose session ends with a code other
\* than 0 or with an exception calls Abort, and then no rank exits with
\* status 0; a rank exits with status 0 only after every rank returned code
\* 0 and it passed the final barrier and the Rotator block; no rank stays
\* blocked forever.
SubprocessEnds ==
    /\ [](\A r \in World :
            /\ status[r] = "aborted" => Failed(r)
            /\ (\E q \in World : Failed(q)) => status[r] # "exit0"
            /\ status[r] = "exit0" => Rotated(r) /\ \A q \in World : code[q] = 0
            /\ wpc[r] # "hung")
    /\ \A r \in 0..(MaxRanks - 1) :
          (r \in World /\ Failed(r)) ~> (r \in World /\ status[r] \in {"aborted", "killed"})
    /\ <>(\A r \in World : status[r] # "running")

\* the same of the sessions that run without coverage
SubprocessEndsPlain == ~with_coverage => SubprocessEnds

\* C25 as stated: once the identity of an object is in the ignore set
\* (extraids), no later step admits the object: it is not added to visited,
\* put on a front or passed to the edge function.
AdmitsNoIgnored ==
    [][\A x \in Node : (id(x) \in extraids /\ x \notin admitted) => x \notin admitted']_vars

\* C25 as amended: _bfs admits only the candidates the last filter pass kept
\* (referrers); an object whose identity is in the ignore set and that is not
\* among them is never admitted afterwards, nor kept by a later filter pass.
AdmitsKeptOnly ==
    [][/\ (admitted' \ admitted) \subseteq Range(referrers)
       /\ \A x \in Node :
             (id(x) \in extraids /\ x \notin admitted /\ x \notin Range(referrers)) =>
                 (id(x) \in extraids' /\ x \notin admitted' /\ x \notin Range(referrers'))]_vars

\* a collection has ended that never admitted a neighbour of an admitted
\* object, its identity being in the ignore set, and that admitted another
\* object, not a seed, whose identity is in the ignore set too
AdmitsKeptOnlyWitness ==
    /\ pc = "done"
    /\ V # {}
    /\ \E x \in Node \ admitted : id(x) \in extraids /\ \E a \in admitted : x \in Edge(a)
    /\ \E y \in admitted \ Seeds : id(y) \in extraids

\* C26: none of the algorithm's own containers (the seed tuple, the
\* per-layer referrers, front and newreferrers lists, id_to_obj) is in the
\* set _bfs returns or in a component tarjan returns, though
\* gc.get_referrers lists them among the referrers of the objects they hold.
ContainersKeptOut ==
    /\ Collected => V \cap ContainerIds = {}
    /\ \A i \in DOMAIN sccs : Range(sccs[i]) \cap ContainerIds = {}
    /\ Returned => \A i \in DOMAIN result : Range(result[i]) \cap ContainerIds = {}

\* a backward check has returned a component that holds a seed, after a
\* _bfs of three iterations or more: the lists of two iterations, id_to_obj
\* and the seed tuple were among the referrers the edge function listed
ContainersKeptOutWitness ==
    /\ fn = "assert_no_backcycles"
    /\ Returned
    /\ layer >= 3
    /\ \E i \in DOMAIN result : Range(result[i]) \cap Seeds # {}
    /\ \A k \in 1..(layer - 1) :
           {ReferrersId(k), FrontId(k), NewReferrersId(k)} \subseteq extraids
    /\ {ObjsId, IdToObjId} \subseteq extraids

\* C27: the components tarjan returns are pairwise disjoint subsets of V and
\* each is maximal: strongly_connect follows no edge to an identity outside
\* V, no identity outside V is in a component, and no two objects of two
\* different components reach each other through edges between objects of V.
MaximalComponents ==
    /\ DOMAIN index \subseteq V
    /\ Range(S) \subseteq V
    /\ Returned =>
           \A i, j \in DOMAIN result :
               /\ Range(result[i]) \subseteq V
               /\ i # j =>
                      /\ Range(result[i]) \cap Range(result[j]) = {}
                      /\ \A u \in Range(result[i]), v \in Range(result[j]) : ~Mutual(u, v, V)

\* a check that returned two components or more, an object of one of them
\* having an edge to an object outside V
MaximalComponentsWitness ==
    /\ Returned
    /\ \E i, j \in DOMAIN result :
           /\ i # j
           /\ \E u \in Range(result[i]) : Edge(u) \ V # {}

\* C28: strongly_connect is invoked exactly once for each identity of V and
\* never for another identity, and the indices it assigns are the distinct
\* consecutive integers 0 .. |V|-1: every invocation calls the edge function
\* once and takes the next index.
OneVisitEach ==
    /\ DOMAIN index \subseteq V
    /\ gindex = Cardinality(DOMAIN index)
    /\ {index[v] : v \in DOMAIN index} = 0..(gindex - 1)
    /\ \A u, v \in DOMAIN index : u # v => index[u] # index[v]
    /\ pc = "tarjan" => calls = (layer - 1) + gindex
    /\ Returned =>
           /\ DOMAIN index = V
           /\ {index[v] : v \in V} = 0..(Cardinality(V) - 1)
           /\ calls = (layer - 1) + Cardinality(V)

\* tarjan has returned from a V of three objects or more, where the loop
\* over V started strongly_connect more than once but not for every object,
\* and an object of V is the neighbour of two others
OneVisitEachWitness ==
    /\ Returned
    /\ Cardinality(V) >= 3
    /\ Len(roots) >= 2
    /\ Len(roots) < Cardinality(V)
    /\ \E w \in V : Cardinality({u \in V \ {w} : w \in Edge(u)}) >= 2

\* C29: the set _bfs returns does not depend on the order in which the edge
\* function lists the neighbours: two runs that differ in that order only
\* return the same set.
OrderIndependent ==
    (Collected /\ OrderKey(~rev) \in DOMAIN seen) => V = seen[OrderKey(~rev)].V

\* the policy lists no object but the candidate it is asked about
ListsSelfOnly == \A x \in Node : ign[x] \subseteq {x}

\* C29, amended: under a policy that lists no object but the candidate it is
\* asked about, two runs that differ only in the order of the neighbour
\* lists return the same set.
OrderIndependentSelfOnly ==
    (Collected /\ OrderKey(~rev) \in DOMAIN seen /\ ListsSelfOnly) =>
        V = seen[OrderKey(~rev)].V

\* the second of two runs has returned three objects or more, under a policy
\* that made _bfs drop a neighbour of a returned object, an object having
\* two neighbours or more, which the two runs listed in opposite orders
OrderIndependentSelfOnlyWitness ==
    /\ Collected
    /\ OrderKey(~rev) \in DOMAIN seen
    /\ ListsSelfOnly
    /\ Cardinality(V) >= 3
    /\ \E a \in admitted : Cardinality(Edge(a)) >= 2 /\ Edge(a) \cap blocked # {}

====
